---- MODULE Spec2Model ----
(***************************************************************************)
(* Model of the REST API skeleton: the Express request pipeline            *)
(* (CORS, Helmet, trace id, body parsers, audit, routes, error handler),   *)
(* the user service over the Prisma user table, the product service and    *)
(* the trace context kept in AsyncLocalStorage.                            *)
(*                                                                         *)
(* Each HTTP connection handles one request at a time; requests on         *)
(* different connections interleave at every asynchronous step (each       *)
(* awaited database call is a separate step).                              *)
(***************************************************************************)
EXTENDS Integers, Sequences, FiniteSets, TLC

\* ------------------------------------------------------------------ bounds
MaxUsers == 2
MaxUuid == 2
\* Connections open at once, and signals handled, in the start-up model.
MaxOpen == 2
MaxSignals == 2
\* Logger objects constructed in the Logger model.
MaxObjects == 3

\* Two keep-alive connections, each handling one request at a time.
Conns == {1, 2}

\* ------------------------------------------------------- value universes
\* Normalised e-mail addresses and names as the service receives them.
Emails == {"a@x.com", "b@x.com"}
Names == {"Ana"}
\* Values a client may send in the x-trace-id header.
TraceHeaders == {"t1", "t2"}
\* UUIDs produced by uuidv4(), in the order they are generated.
UuidPool == <<"uuid-1", "uuid-2", "uuid-3", "uuid-4">>

UserRoutes == {"createUser", "getAllUsers", "getUserById", "getUserByEmail",
               "updateUser", "deleteUser"}
ProductRoutes == {"createProduct", "createMultiple", "getProducts"}
Routes == {"health"} \cup UserRoutes \cup ProductRoutes

\* ---------------------------------------------------------- error classes
NoErr == [kind |-> "", custom |-> FALSE, statusCode |-> 0, message |-> "",
          detail |-> ""]

\* CustomError whose constructor drops the status it is given.
CustomErrorNoStatus(kind, message, statusCode) ==
  [kind |-> kind, custom |-> TRUE, statusCode |-> 500,
   message |-> message, detail |-> ""]

CustomError(kind, message, statusCode) ==
  [kind |-> kind, custom |-> TRUE, statusCode |-> statusCode,
   message |-> message, detail |-> ""]

NotFoundError(message) == CustomError("NotFoundError", message, 404)

ConflictError(message) == CustomError("ConflictError", message, 409)

BadRequestError(message) == CustomError("BadRequestError", message, 400)

UnauthorizedError(message) == CustomError("UnauthorizedError", message, 401)

ForbiddenError(message) == CustomError("ForbiddenError", message, 403)

InternalServerError(message) ==
  CustomError("InternalServerError", message, 500)

\* An error that is not a CustomError: a plain Error, an AxiosError or an
\* error raised by a library (Prisma, cors).  detail stands for the stack
\* and, for an AxiosError, the request/response details.
GenericError(kind, message, detail) ==
  [kind |-> kind, custom |-> FALSE, statusCode |-> 0, message |-> message,
   detail |-> detail]

\* Errors thrown by the Prisma client.
PrismaUniqueError ==
  GenericError("PrismaClientKnownRequestError",
               "P2002 Unique constraint failed on the fields: (email)",
               "stack")

PrismaNotFoundError ==
  GenericError("PrismaClientKnownRequestError",
               "P2025 Record to update or delete not found", "stack")

REQUEST_PROCESSING == "Error al procesar la solicitud"

\* ------------------------------------------------------------------ state
VARIABLES
  users,      \* the user table: a set of records [id, email, name]
  nextId,     \* number of user ids generated so far + 1 (ids are fresh)
  products,   \* the product table: a set of records [nombre, stock]
  req,        \* per connection: the request being handled
  connStore,  \* per connection: the AsyncLocalStorage store of its context
  uuidCount,  \* number of trace UUIDs generated so far
  log,        \* per connection: log lines of the request being handled
  server,     \* the server process: start-up, HTTP server, shutdown
  loggers     \* the Logger objects and the registry of named instances

vars == <<users, nextId, products, req, connStore, uuidCount, log,
          server, loggers>>

\* The request pipeline leaves the process state alone.
procVars == <<server, loggers>>

dbVars == <<users, nextId>>

NoBody == [none |-> TRUE]

\* The x-trace-id header is not part of the request.
HdrAbsent == "<absent>"

\* JavaScript values of a JSON body.  A number is kept in halves (n = 2 *
\* value) so that fractional stocks exist.
JsUndefined == [t |-> "undefined", n |-> 0, s |-> ""]
JsNull == [t |-> "null", n |-> 0, s |-> ""]
JsNaN == [t |-> "nan", n |-> 0, s |-> ""]
JsNum(halves) == [t |-> "number", n |-> halves, s |-> ""]
JsStr(s) == [t |-> "string", n |-> 0, s |-> s]
JsFalse == [t |-> "boolean", n |-> 0, s |-> ""]
\* An object value, named by its content.
JsObj(s) == [t |-> "object", n |-> 0, s |-> s]

\* !value
Falsy(v) ==
  \/ v.t \in {"undefined", "null", "nan"}
  \/ v.t = "number" /\ v.n = 0
  \/ v.t = "string" /\ v.s = ""
  \/ v.t = "boolean" /\ v.n = 0

\* ------------------------------------------- request headers and body
\* The names audit.middleware treats as sensitive.
sensitiveHeaders == {"authorization", "cookie", "x-api-key", "x-auth-token"}
sensitiveFields == {"password", "token", "secret", "key", "pin", "cvv",
                    "newPassword"}

\* Header names (Node gives them in lower case) and top-level body field
\* names a client may send; "0" is the first index of an array body.
HeaderNames == sensitiveHeaders \cup {"content-type", "x-request-id"}
BodyFieldNames == sensitiveFields \cup {"username", "Password", "0"}

\* req.headers: the value of every header, HdrAbsent when it is not sent.
NoHeaders == [h \in HeaderNames |-> HdrAbsent]

\* req.body: undefined (present = FALSE) or an object or array with the
\* value of every top-level field, JsUndefined when the field is not there.
BodyUndefined ==
  [present |-> FALSE, fields |-> [f \in BodyFieldNames |-> JsUndefined]]

\* What a log entry shows of the request.
NoData == [headers |-> NoHeaders, body |-> BodyUndefined]

IdleReq ==
  [pc |-> "idle", route |-> "", url |-> "",
   headers |-> NoHeaders, reqBody |-> BodyUndefined,
   hdr |-> HdrAbsent, traceId |-> "", audited |-> FALSE,
   checked |-> FALSE, rawId |-> 0, rawEmail |-> "", rawName |-> "",
   validationErrors |-> << >>, id |-> 0, email |-> "", name |-> "",
   invoked |-> FALSE, err |-> NoErr, sent |-> FALSE, status |-> 0,
   body |-> NoBody]

\* ---------------------------------------------------------------- logging
\* traceContext.getTraceId(): the trace id of the store of the current
\* asynchronous context, "" when there is none.
getTraceId(c) == connStore[c]

\* Logger.log: const id = traceId || traceContext.getTraceId() || '-'
LogId(c, traceId) ==
  IF traceId # "" THEN traceId
  ELSE IF getTraceId(c) # "" THEN getTraceId(c) ELSE "-"

\* One log line written by logger `ctx` at `level` while connection c
\* handles its request; owner is that request's req.traceId.
LogLine(c, ctx, level, kind, traceId) ==
  [ctx |-> ctx, level |-> level, kind |-> kind,
   owner |-> req[c].traceId, field |-> LogId(c, traceId), data |-> NoData]

\* A log line whose message or metadata shows request data.
LogData(c, ctx, level, kind, traceId, data) ==
  [LogLine(c, ctx, level, kind, traceId) EXCEPT !.data = data]

\* ----------------------------------------------------------- user table
UserById(id) == {u \in users : u.id = id}

UserByEmail(email) == {u \in users : u.email = email}

\* A user table without the unique index.
UniqueViolationOff(tbl, email, exceptId) == FALSE

\* The unique index on User.email of the Prisma schema: a write that would
\* give `email` to a second record (other than `exceptId`) is rejected.
UniqueViolation(tbl, email, exceptId) ==
  \E u \in tbl : u.email = email /\ u.id # exceptId

toUserDTO(u) == [id |-> u.id, email |-> u.email, name |-> u.name]

\* --------------------------------------------------- responses and errors
\* res.status(status).json(body)
Respond(c, status, body) ==
  req' = [req EXCEPT ![c].pc = "done", ![c].sent = TRUE,
                     ![c].status = status, ![c].body = body]

\* A handler throws (or its promise rejects): Express passes the error to
\* the error-handling middleware.
Throw(c, e) ==
  req' = [req EXCEPT ![c].pc = "error", ![c].err = e]

Emit(c, lines) == log' = [log EXCEPT ![c] = @ \cup lines]

\* ------------------------------------------------------- user controller
\* The first database call of each UserService method.
FirstStep(route) ==
  CASE route = "createUser" -> "cu_find"
    [] route = "getAllUsers" -> "ga_find"
    [] route = "getUserById" -> "gi_find"
    [] route = "getUserByEmail" -> "ge_find"
    [] route = "updateUser" -> "up_find"
    [] route = "deleteUser" -> "de_find"

\* UserController.<method>: reads req.body / req.params and calls the
\* service, which logs its debug line (updateUser and deleteUser also that
\* of the getUserById they call) and issues its first query.
UserController(c) ==
  /\ req[c].pc = "ctl"
  /\ req[c].route \in UserRoutes
  /\ req' = [req EXCEPT ![c].pc = FirstStep(req[c].route),
                        ![c].invoked = TRUE]
  /\ Emit(c, {LogLine(c, "users.service", "debug", req[c].route, "")}
             \cup IF req[c].route \in {"updateUser", "deleteUser"}
                    THEN {LogLine(c, "users.service", "debug",
                                  "getUserById", "")}
                    ELSE {})
  /\ UNCHANGED <<dbVars, products, connStore, uuidCount, procVars>>

\* --------------------------------------------------------- UserService
\* createUser: findUnique({where: {email}}), ConflictError when it exists.
CreateUserFind(c) ==
  /\ req[c].pc = "cu_find"
  /\ IF UserByEmail(req[c].email) # {}
       THEN Throw(c, ConflictError("El email ya existe"))
       ELSE req' = [req EXCEPT ![c].pc = "cu_create"]
  /\ UNCHANGED <<dbVars, products, connStore, uuidCount, log, procVars>>

\* createUser: prisma.user.create, then the info line and the 201 answer.
CreateUserCreate(c) ==
  /\ req[c].pc = "cu_create"
  /\ IF UniqueViolation(users, req[c].email, 0)
       THEN /\ Throw(c, PrismaUniqueError)
            /\ UNCHANGED <<dbVars, log>>
       ELSE /\ nextId <= MaxUsers
            /\ LET u == [id |-> nextId, email |-> req[c].email,
                         name |-> req[c].name]
               IN /\ users' = users \cup {u}
                  /\ Respond(c, 201,
                       [success |-> TRUE, data |-> toUserDTO(u),
                        message |-> "Usuario creado exitosamente"])
            /\ nextId' = nextId + 1
            /\ Emit(c, {LogLine(c, "users.service", "info", "created", "")})
  /\ UNCHANGED <<products, connStore, uuidCount, procVars>>

\* getUserById: findUnique({where: {id}}), NotFoundError when missing.
GetUserByIdFind(c) ==
  /\ req[c].pc = "gi_find"
  /\ IF UserById(req[c].id) = {}
       THEN Throw(c, NotFoundError("Usuario no encontrado"))
       ELSE Respond(c, 200,
              [success |-> TRUE,
               data |-> toUserDTO(CHOOSE u \in UserById(req[c].id) : TRUE),
               message |-> "Usuario obtenido exitosamente"])
  /\ UNCHANGED <<dbVars, products, connStore, uuidCount, log, procVars>>

\* getUserByEmail: findUnique({where: {email}}), NotFoundError when missing.
GetUserByEmailFind(c) ==
  /\ req[c].pc = "ge_find"
  /\ IF UserByEmail(req[c].email) = {}
       THEN Throw(c, NotFoundError("Usuario no encontrado"))
       ELSE Respond(c, 200,
              [success |-> TRUE,
               data |-> toUserDTO(CHOOSE u \in UserByEmail(req[c].email) :
                                    TRUE),
               message |-> "Usuario obtenido exitosamente"])
  /\ UNCHANGED <<dbVars, products, connStore, uuidCount, log, procVars>>

\* getAllUsers: findMany, always 200.
GetAllUsersFind(c) ==
  /\ req[c].pc = "ga_find"
  /\ Respond(c, 200,
       [success |-> TRUE, data |-> {toUserDTO(u) : u \in users},
        message |-> "Usuarios obtenidos exitosamente"])
  /\ UNCHANGED <<dbVars, products, connStore, uuidCount, log, procVars>>

\* updateUser: await this.getUserById(id) first.
UpdateUserFind(c) ==
  /\ req[c].pc = "up_find"
  /\ IF UserById(req[c].id) = {}
       THEN Throw(c, NotFoundError("Usuario no encontrado"))
       ELSE req' = [req EXCEPT ![c].pc = "up_update"]
  /\ UNCHANGED <<dbVars, products, connStore, uuidCount, log, procVars>>

\* The record `u` after prisma.user.update({data: userData}): only the
\* fields the DTO provides change.
ApplyUpdate(u, email, name) ==
  [id |-> u.id,
   email |-> IF email # "" THEN email ELSE u.email,
   name |-> IF name # "" THEN name ELSE u.name]

\* updateUser: prisma.user.update({where: {id}, data}), then the info line
\* and the 200 answer.
UpdateUserUpdate(c) ==
  /\ req[c].pc = "up_update"
  /\ IF UserById(req[c].id) = {}
       THEN /\ Throw(c, PrismaNotFoundError)
            /\ UNCHANGED <<dbVars, log>>
       ELSE IF req[c].email # ""
               /\ UniqueViolation(users, req[c].email, req[c].id)
       THEN /\ Throw(c, PrismaUniqueError)
            /\ UNCHANGED <<dbVars, log>>
       ELSE LET old == CHOOSE u \in UserById(req[c].id) : TRUE
                new == ApplyUpdate(old, req[c].email, req[c].name)
            IN /\ users' = (users \ {old}) \cup {new}
               /\ Respond(c, 200,
                    [success |-> TRUE, data |-> toUserDTO(new),
                     message |-> "Usuario actualizado exitosamente"])
               /\ Emit(c, {LogLine(c, "users.service", "info", "updated",
                                   "")})
               /\ UNCHANGED nextId
  /\ UNCHANGED <<products, connStore, uuidCount, procVars>>

\* deleteUser that goes to the delete without looking the user up.
DeleteUserFindNoCheck(c) ==
  /\ req[c].pc = "de_find"
  /\ req' = [req EXCEPT ![c].pc = "de_delete"]
  /\ UNCHANGED <<dbVars, products, connStore, uuidCount, log, procVars>>

\* deleteUser: await this.getUserById(id) first.
DeleteUserFind(c) ==
  /\ req[c].pc = "de_find"
  /\ IF UserById(req[c].id) = {}
       THEN Throw(c, NotFoundError("Usuario no encontrado"))
       ELSE req' = [req EXCEPT ![c].pc = "de_delete"]
  /\ UNCHANGED <<dbVars, products, connStore, uuidCount, log, procVars>>

\* deleteUser: prisma.user.delete({where: {id}}), then the info line and
\* the 200 answer (no data).
DeleteUserDelete(c) ==
  /\ req[c].pc = "de_delete"
  /\ IF UserById(req[c].id) = {}
       THEN /\ Throw(c, PrismaNotFoundError)
            /\ UNCHANGED <<dbVars, log>>
       ELSE LET old == CHOOSE u \in UserById(req[c].id) : TRUE
            IN /\ users' = users \ {old}
               /\ Respond(c, 200,
                    [success |-> TRUE,
                     message |-> "Usuario eliminado exitosamente"])
               /\ Emit(c, {LogLine(c, "users.service", "info", "deleted",
                                   "")})
               /\ UNCHANGED nextId
  /\ UNCHANGED <<products, connStore, uuidCount, procVars>>

UserService(c) ==
  \/ CreateUserFind(c)
  \/ CreateUserCreate(c)
  \/ GetUserByIdFind(c)
  \/ GetUserByEmailFind(c)
  \/ GetAllUsersFind(c)
  \/ UpdateUserFind(c)
  \/ UpdateUserUpdate(c)
  \/ DeleteUserFind(c)
  \/ DeleteUserDelete(c)

\* ------------------------------------------------------- error middleware
\* errorHandler that answers with the message of whatever was thrown.
errorHandlerLeaky(error) ==
  IF error.custom
    THEN [status |-> error.statusCode,
          body |-> [success |-> FALSE, message |-> error.message]]
    ELSE [status |-> 500,
          body |-> [success |-> FALSE, message |-> error.message]]

\* What errorHandler sends for `error` (when it sends): the status and the
\* JSON body.
errorHandler(error) ==
  IF error.custom
    THEN [status |-> error.statusCode,
          body |-> [success |-> FALSE, message |-> error.message]]
    ELSE [status |-> 500,
          body |-> [success |-> FALSE, message |-> REQUEST_PROCESSING]]

\* errorDetails of errorHandler: req.body as it is (no headers).
ErrorDetails(c) == [headers |-> NoHeaders, body |-> req[c].reqBody]

\* The lines errorHandler logs: two plain error lines for a CustomError
\* (the second is JSON.stringify(errorDetails)), one error line with
\* errorDetails as metadata (whose traceId is req.traceId) otherwise.
ErrorLogLines(c) ==
  IF req[c].err.custom
    THEN {LogLine(c, "error.middleware", "error", "custom", ""),
          LogData(c, "error.middleware", "error", "details", "",
                  ErrorDetails(c))}
    ELSE {LogData(c, "error.middleware", "error", "generic",
                  req[c].traceId, ErrorDetails(c))}

ErrorHandler(c) ==
  /\ req[c].pc = "error"
  /\ Emit(c, ErrorLogLines(c))
  /\ IF ~req[c].err.custom /\ req[c].sent
       THEN \* res.headersSent: next(error), nothing more is sent
            req' = [req EXCEPT ![c].pc = "done"]
       ELSE Respond(c, errorHandler(req[c].err).status,
                    errorHandler(req[c].err).body)
  /\ UNCHANGED <<dbVars, products, connStore, uuidCount, procVars>>

\* ------------------------------------------------------- audit: data
REDACTED == "[REDACTED]"

\* sanitizeHeaders: a sensitive header with a truthy value is replaced.
sanitizeHeaders(headers) ==
  [h \in DOMAIN headers |->
     IF h \in sensitiveHeaders /\ headers[h] \notin {HdrAbsent, ""}
       THEN REDACTED ELSE headers[h]]

\* sanitizeBody with the shorter list of sanitizeResponseBody (no pin, cvv).
sanitizeBodyShortList(body) ==
  IF ~body.present THEN body
  ELSE [body EXCEPT !.fields =
          [f \in DOMAIN body.fields |->
             IF f \in sensitiveFields \ {"pin", "cvv"}
                /\ ~Falsy(body.fields[f])
               THEN JsStr(REDACTED) ELSE body.fields[f]]]

\* sanitizeBody: a body that is not an object is returned as it is;
\* otherwise a top-level sensitive field with a truthy value is replaced.
sanitizeBody(body) ==
  IF ~body.present THEN body
  ELSE [body EXCEPT !.fields =
          [f \in DOMAIN body.fields |->
             IF f \in sensitiveFields /\ ~Falsy(body.fields[f])
               THEN JsStr(REDACTED) ELSE body.fields[f]]]

\* requestData of auditMiddleware.
requestData(c) ==
  [headers |-> sanitizeHeaders(req[c].headers),
   body |-> sanitizeBody(req[c].reqBody)]

\* ------------------------------------------------------ audit: response
\* getLogLevel that compares with > where the code has >=.
getLogLevelStrict(statusCode) ==
  IF statusCode > 500 THEN "error"
  ELSE IF statusCode > 400 THEN "warn"
  ELSE IF statusCode > 300 THEN "info"
  ELSE "debug"

getLogLevel(statusCode) ==
  IF statusCode >= 500 THEN "error"
  ELSE IF statusCode >= 400 THEN "warn"
  ELSE IF statusCode >= 300 THEN "info"
  ELSE "debug"

\* The response has been written: the 'finish' listener of the audit
\* middleware logs the RESPONSE entry; the connection then waits for its
\* next request.
Finish(c) ==
  /\ req[c].pc = "done"
  /\ req' = [req EXCEPT ![c] = [IdleReq EXCEPT !.pc = "finished"]]
  /\ IF req[c].audited
       THEN Emit(c, {LogData(c, "audit.middleware",
                             getLogLevel(req[c].status), "RESPONSE", "",
                             requestData(c))})
       ELSE UNCHANGED log
  /\ UNCHANGED <<dbVars, products, connStore, uuidCount, procVars>>

\* ------------------------------------------------- request validation
\* Raw strings a client may send.  UNDEF is a field that is not sent;
\* LongEmail stands for a well-formed address of 300 characters and
\* Name101 for a name of 101 characters.
UNDEF == "<undefined>"
LongEmail == "<300 chars>@x.com"
Name101 == "<101 chars>"

RawEmails == {UNDEF, "", " A@x.com ", "a@x.com", "not-an-email", LongEmail}
RawNames == {UNDEF, "   ", "A", " Ana ", Name101}
\* Raw :id parameters: -1 is a string that is not a UUID, k >= 0 is the
\* k-th UUID (0 is a UUID no user has).
NotAUuid == -1

\* String(value).trim() of the express-validator sanitizer.
Trim(s) ==
  CASE s = UNDEF -> ""
    [] s = " A@x.com " -> "A@x.com"
    [] s = "   " -> ""
    [] s = " Ana " -> "Ana"
    [] OTHER -> s

StrLen(s) ==
  CASE s = "" -> 0
    [] s = "A" -> 1
    [] s = "Ana" -> 3
    [] s = Name101 -> 101
    [] s = "a@x.com" -> 7
    [] s = "A@x.com" -> 7
    [] s = "not-an-email" -> 12
    [] s = LongEmail -> 300
    [] OTHER -> 5

\* validator.js isEmail: a well-formed address of at most 254 characters.
IsEmail(s) == s \in {"a@x.com", "A@x.com"}

\* validator.js normalizeEmail: lower-cases the address; a string without
\* "@" is taken as a domain with an empty local part.
NormalizeEmail(s) ==
  CASE s = "A@x.com" -> "a@x.com"
    [] s = "a@x.com" -> "a@x.com"
    [] s = LongEmail -> LongEmail
    [] s = "not-an-email" -> "@not-an-email"
    [] OTHER -> "@"

IsUUID(id) == id >= 0

VErr(field, message) == [field |-> field, message |-> message]

Keep(cond, e) == IF cond THEN <<e>> ELSE << >>

\* body('email') of createUserValidation / updateUserValidation and
\* param('email') of emailParamValidator: trim, notEmpty, isEmail,
\* normalizeEmail and (body only) isLength({max: 255}); every failing
\* validator of the chain reports its error.
EmailChain(raw, optional, emptyMessage, checkLength) ==
  IF optional /\ raw = UNDEF THEN << >>
  ELSE Keep(Trim(raw) = "", VErr("email", emptyMessage))
       \o Keep(~IsEmail(Trim(raw)),
               VErr("email", "El email no tiene un formato valido"))
       \o Keep(checkLength /\ StrLen(NormalizeEmail(Trim(raw))) > 255,
               VErr("email", "El campo email no puede exceder 255 caracteres"))

\* body('name'): trim, notEmpty, isLength({min: 2, max: 100}).
NameChain(raw, optional, emptyMessage) ==
  IF optional /\ raw = UNDEF THEN << >>
  ELSE Keep(Trim(raw) = "", VErr("name", emptyMessage))
       \o Keep(StrLen(Trim(raw)) < 2 \/ StrLen(Trim(raw)) > 100,
               VErr("name",
                    "El campo name debe tener entre 2 y 100 caracteres"))

\* uuidValidator: param('id').notEmpty().isUUID().
uuidValidator(rawId) ==
  Keep(~IsUUID(rawId), VErr("id", "El ID debe ser un UUID valido"))

createUserValidation(rawEmail, rawName) ==
  EmailChain(rawEmail, FALSE, "El campo email es requerido", TRUE)
  \o NameChain(rawName, FALSE, "El campo name es requerido")

updateUserValidation(rawEmail, rawName) ==
  EmailChain(rawEmail, TRUE, "El campo email no puede estar vacio", TRUE)
  \o NameChain(rawName, TRUE, "El campo name no puede estar vacio")

emailParamValidator(rawEmail) ==
  EmailChain(rawEmail, FALSE, "El campo email es requerido", FALSE)

\* The validation chains each user route runs before `validate`.
RouteValidation(route, rawId, rawEmail, rawName) ==
  CASE route = "createUser" -> createUserValidation(rawEmail, rawName)
    [] route = "getUserById" -> uuidValidator(rawId)
    [] route = "getUserByEmail" -> emailParamValidator(rawEmail)
    [] route = "updateUser" ->
         uuidValidator(rawId) \o updateUserValidation(rawEmail, rawName)
    [] route = "deleteUser" -> uuidValidator(rawId)
    [] OTHER -> << >>

\* The value the sanitizers leave in req.body / req.params.
SanitizedEmail(raw) == IF raw = UNDEF THEN "" ELSE NormalizeEmail(Trim(raw))

SanitizedName(raw) == Trim(raw)

\* The inputs a route reads; the others are not part of the request.
RouteInput(route, rawId, rawEmail, rawName) ==
  /\ rawId \in NotAUuid..MaxUsers
  /\ rawId < nextId
  /\ rawEmail \in RawEmails
  /\ rawName \in RawNames
  /\ CASE route = "createUser" -> rawId = 0
       [] route = "getUserByEmail" ->
            rawId = 0 /\ rawName = UNDEF /\ rawEmail # UNDEF
       [] route = "updateUser" -> TRUE
       [] OTHER -> rawEmail = UNDEF /\ rawName = UNDEF

\* validate that calls next() whatever the chains reported.
validateNoThrow(c) ==
  /\ req[c].pc = "route"
  /\ req[c].route \in UserRoutes \ {"getAllUsers"}
  /\ \E rawId \in NotAUuid..MaxUsers, rawEmail \in RawEmails,
        rawName \in RawNames :
       /\ RouteInput(req[c].route, rawId, rawEmail, rawName)
       /\ req' = [req EXCEPT ![c] =
                    [req[c] EXCEPT !.checked = TRUE, !.rawId = rawId,
                                   !.rawEmail = rawEmail,
                                   !.rawName = rawName, !.pc = "ctl",
                                   !.id = rawId,
                                   !.email = SanitizedEmail(rawEmail),
                                   !.name = SanitizedName(rawName)]]
  /\ UNCHANGED <<dbVars, products, connStore, uuidCount, log, procVars>>

\* router.<method>(path, ...validators, validate, controller): the chains
\* run, and `validate` throws BadRequestError when any of them failed and
\* calls next() otherwise.  GET /api/users has no validators.
validate(c) ==
  /\ req[c].pc = "route"
  /\ req[c].route \in UserRoutes \ {"getAllUsers"}
  /\ \E rawId \in NotAUuid..MaxUsers, rawEmail \in RawEmails,
        rawName \in RawNames :
       /\ RouteInput(req[c].route, rawId, rawEmail, rawName)
       /\ LET errors == RouteValidation(req[c].route, rawId, rawEmail,
                                        rawName)
              checkedReq == [req[c] EXCEPT !.checked = TRUE,
                                           !.rawId = rawId,
                                           !.rawEmail = rawEmail,
                                           !.rawName = rawName]
          IN IF errors # << >>
               THEN req' = [req EXCEPT ![c] =
                              [checkedReq EXCEPT
                                 !.pc = "error",
                                 !.err =
                                   BadRequestError("Errores de validacion"),
                                 !.validationErrors = errors]]
               ELSE req' = [req EXCEPT ![c] =
                              [checkedReq EXCEPT
                                 !.pc = "ctl",
                                 !.id = rawId,
                                 !.email = SanitizedEmail(rawEmail),
                                 !.name = SanitizedName(rawName)]]
  /\ UNCHANGED <<dbVars, products, connStore, uuidCount, log, procVars>>

\* -------------------------------------------------------- middleware chain
\* A request arrives on connection c and enters the chain registered by
\* registerMiddleware.
Arrive(c) ==
  /\ req[c].pc \in {"idle", "finished"}
  /\ req' = [req EXCEPT ![c] = [IdleReq EXCEPT !.pc = "cors"]]
  /\ log' = [log EXCEPT ![c] = {}]
  /\ UNCHANGED <<dbVars, products, connStore, uuidCount, procVars>>

\* The client closes an unused connection and opens a new one: the new
\* connection's asynchronous context has no store.
Reconnect(c) ==
  /\ req[c].pc \in {"idle", "finished"}
  /\ connStore[c] # ""
  /\ connStore' = [connStore EXCEPT ![c] = ""]
  /\ UNCHANGED <<dbVars, products, req, uuidCount, log, procVars>>

\* configureCors: requests without Origin and requests from an allowed
\* origin pass; any other origin is logged and refused with a plain Error.
Origins == {"none", "allowed", "other"}

CorsError == GenericError("Error", "Origin not allowed by CORS policy",
                          "stack")

Cors(c) ==
  /\ req[c].pc = "cors"
  /\ \E origin \in Origins :
       IF origin = "other"
         THEN /\ req' = [req EXCEPT
                           ![c].pc = "error",
                           ![c].err = CorsError]
              /\ Emit(c, {LogLine(c, "cors.middleware", "warn", "origin",
                                  "")})
         ELSE /\ req' = [req EXCEPT ![c].pc = "helmet"]
              /\ UNCHANGED log
  /\ UNCHANGED <<dbVars, products, connStore, uuidCount, procVars>>

\* The chain with the body parsers registered before the trace middleware.
HelmetThenParsers(c) ==
  /\ req[c].pc = "helmet"
  /\ req' = [req EXCEPT ![c].pc = "json"]
  /\ UNCHANGED <<dbVars, products, connStore, uuidCount, log, procVars>>

\* helmet(): sets response headers only.
Helmet(c) ==
  /\ req[c].pc = "helmet"
  /\ req' = [req EXCEPT ![c].pc = "trace"]
  /\ UNCHANGED <<dbVars, products, connStore, uuidCount, log, procVars>>

\* traceContext.setTraceId: enterWith({traceId}) only when the current
\* context has no store yet.
setTraceId(store, traceId) == IF store = "" THEN traceId ELSE store

\* The header wins whenever it is present, also when it is empty (?? in
\* place of ||).
TraceIdForNullish(hdr, uuid) == IF hdr # HdrAbsent THEN hdr ELSE uuid

\* (req.headers['x-trace-id'] as string) || uuidv4()
TraceIdFor(hdr, uuid) == IF hdr # HdrAbsent /\ hdr # "" THEN hdr ELSE uuid

traceMiddleware(c) ==
  /\ req[c].pc = "trace"
  /\ \E hdr \in {HdrAbsent, ""} \cup TraceHeaders :
       LET traceId == TraceIdFor(hdr, UuidPool[uuidCount + 1])
       IN /\ traceId \in TraceHeaders \/ uuidCount < MaxUuid
          /\ req' = [req EXCEPT ![c].pc = "json", ![c].hdr = hdr,
                                ![c].traceId = traceId]
          /\ uuidCount' = IF traceId \in TraceHeaders THEN uuidCount
                          ELSE uuidCount + 1
          /\ connStore' = [connStore EXCEPT
                             ![c] = setTraceId(connStore[c], traceId)]
  /\ UNCHANGED <<dbVars, products, log, procVars>>

\* express.json() and express.urlencoded(): a body that cannot be parsed
\* raises the parser's own error (not a CustomError).
BodyParser(c) ==
  /\ req[c].pc = "json"
  /\ \E parsed \in BOOLEAN :
       IF parsed
         THEN req' = [req EXCEPT ![c].pc = "audit"]
         ELSE Throw(c, GenericError("SyntaxError",
                                    "Unexpected token in JSON", "stack"))
  /\ UNCHANGED <<dbVars, products, connStore, uuidCount, log, procVars>>

\* The URLs of a route (req.originalUrl, query string included).
UrlsOf(route) ==
  IF route = "health" THEN {"/health", "/health?probe=1"}
  ELSE IF route \in UserRoutes THEN {"/api/users"}
  ELSE {"/api/products"}

excludedPaths == {"/health", "/api/health"}

\* auditMiddleware: skips the excluded paths, otherwise logs the REQUEST
\* entry and registers the 'finish' listener.
auditMiddleware(c) ==
  /\ req[c].pc = "audit"
  /\ \E route \in Routes : \E url \in UrlsOf(route) :
       IF url \in excludedPaths
         THEN /\ req' = [req EXCEPT ![c].pc = "route", ![c].route = route,
                                    ![c].url = url]
              /\ UNCHANGED log
         ELSE /\ req' = [req EXCEPT ![c].pc = "route", ![c].route = route,
                                    ![c].url = url, ![c].audited = TRUE]
              /\ Emit(c, {LogData(c, "audit.middleware", "debug", "REQUEST",
                                  "", requestData(c))})
  /\ UNCHANGED <<dbVars, products, connStore, uuidCount, procVars>>

\* ------------------------------------------------------------ health route
HealthRoute(c) ==
  /\ req[c].pc = "route"
  /\ req[c].route = "health"
  /\ Respond(c, 200, [status |-> "ok", timestamp |-> "now", uptime |-> 1,
                      environment |-> "development"])
  /\ UNCHANGED <<dbVars, products, connStore, uuidCount, log, procVars>>

\* GET /api/users: no validators, the controller runs directly.
UsersRoot(c) ==
  /\ req[c].pc = "route"
  /\ req[c].route = "getAllUsers"
  /\ req' = [req EXCEPT ![c].pc = "ctl"]
  /\ UNCHANGED <<dbVars, products, connStore, uuidCount, log, procVars>>

\* --------------------------------------------------------------- products
NombreInputs == {JsUndefined, JsStr(""), JsStr("  "), JsStr("Pan"), JsNum(10)}
StockInputs == {JsUndefined, JsNull, JsNum(-2), JsNum(0), JsNum(3), JsNum(6),
                JsStr("5"), JsStr("-5"), JsNaN}
PrecioInputs == {JsUndefined, JsNum(20), JsStr("10")}

\* value.trim() === ""
TrimIsEmpty(v) == v.s \in {"", "  "}

\* value < 0 with JavaScript's conversion to number.
LessThanZero(v) ==
  \/ v.t = "number" /\ v.n < 0
  \/ v.t = "string" /\ v.s = "-5"

\* Number.isInteger(value)
NumberIsInteger(v) == v.t = "number" /\ v.n % 2 = 0

NoThrow == [status |-> 0, message |-> ""]

\* createProduct without the `stock < 0` test.
createProductCheckNoSign(nombre, stock) ==
  IF Falsy(nombre)
    THEN [status |-> 400,
          message |-> "El nombre del producto no puede estar vacio."]
  ELSE IF nombre.t # "string"
    THEN [status |-> 0, message |-> "data.nombre.trim is not a function"]
  ELSE IF TrimIsEmpty(nombre)
    THEN [status |-> 400,
          message |-> "El nombre del producto no puede estar vacio."]
  ELSE IF ~NumberIsInteger(stock)
    THEN [status |-> 400,
          message |-> "El stock debe ser un numero entero positivo."]
  ELSE NoThrow

\* The checks of createProduct before it writes: what it throws, NoThrow
\* when it goes on to prisma.product.create.  Calling trim on a nombre that
\* is not a string raises a TypeError, which has no status.
createProductCheck(nombre, stock) ==
  IF Falsy(nombre)
    THEN [status |-> 400,
          message |-> "El nombre del producto no puede estar vacio."]
  ELSE IF nombre.t # "string"
    THEN [status |-> 0, message |-> "data.nombre.trim is not a function"]
  ELSE IF TrimIsEmpty(nombre)
    THEN [status |-> 400,
          message |-> "El nombre del producto no puede estar vacio."]
  ELSE IF LessThanZero(stock) \/ ~NumberIsInteger(stock)
    THEN [status |-> 400,
          message |-> "El stock debe ser un numero entero positivo."]
  ELSE NoThrow

\* The checks of one element of createMultipleProducts.
bulkItemCheck(p) ==
  IF Falsy(p.nombre)
    THEN [status |-> 400, message |-> "nombre vacio"]
  ELSE IF p.nombre.t # "string"
    THEN [status |-> 0, message |-> "product.nombre.trim is not a function"]
  ELSE IF TrimIsEmpty(p.nombre)
    THEN [status |-> 400, message |-> "nombre vacio"]
  ELSE IF p.precio.t = "undefined" \/ p.precio.t \notin {"number", "nan"}
    THEN [status |-> 400, message |-> "precio invalido"]
  ELSE IF LessThanZero(p.stock) \/ ~NumberIsInteger(p.stock)
    THEN [status |-> 400, message |-> "stock invalido"]
  ELSE NoThrow

\* createMultipleProducts before it writes: the array check, then the
\* forEach, which stops at the first element that fails.
createMultipleCheck(isArray, items) ==
  IF ~isArray \/ Len(items) = 0
    THEN [status |-> 400, message |-> "Se debe proporcionar un array"]
  ELSE IF \E i \in 1..Len(items) : bulkItemCheck(items[i]) # NoThrow
    THEN bulkItemCheck(items[CHOOSE i \in 1..Len(items) :
                               /\ bulkItemCheck(items[i]) # NoThrow
                               /\ \A j \in 1..(i - 1) :
                                    bulkItemCheck(items[j]) = NoThrow])
  ELSE NoThrow

Row(nombre, stock) == [nombre |-> nombre, stock |-> stock]

\* ProductController.createProduct with ProductService.createProduct:
\* 201 with the product, or the thrown status (500 when it has none) with
\* {error: message}.  prisma.product.create may fail.
CreateProduct(c) ==
  /\ req[c].pc = "route"
  /\ req[c].route = "createProduct"
  /\ \E nombre \in NombreInputs, stock \in StockInputs, dbOk \in BOOLEAN :
       LET thrown == createProductCheck(nombre, stock)
       IN IF thrown # NoThrow
            THEN /\ Respond(c, IF thrown.status # 0 THEN thrown.status
                               ELSE 500,
                            [error |-> thrown.message])
                 /\ UNCHANGED products
          ELSE IF ~dbOk
            THEN /\ Respond(c, 500,
                      [error |->
                         "Error interno del servidor al crear el producto."])
                 /\ UNCHANGED products
          ELSE /\ products' = products \cup {Row(nombre, stock)}
               /\ Respond(c, 201, Row(nombre, stock))
  /\ UNCHANGED <<dbVars, connStore, uuidCount, log, procVars>>

\* Elements of a bulk body.
BulkItems ==
  {[nombre |-> n, precio |-> p, stock |-> s] :
     n \in {JsStr("  "), JsStr("Pan")},
     p \in {JsUndefined, JsNum(20)},
     s \in {JsUndefined, JsNum(-2), JsNum(3), JsNum(6)}}

BulkBodies == {<< >>} \cup {<<a>> : a \in BulkItems}
              \cup {<<a, b>> : a \in BulkItems, b \in BulkItems}

\* ProductController.createMultiple with
\* ProductService.createMultipleProducts: 201 with the count, or the thrown
\* status with {error: message}.  createMany may fail.
CreateMultiple(c) ==
  /\ req[c].pc = "route"
  /\ req[c].route = "createMultiple"
  /\ \E isArray \in BOOLEAN, items \in BulkBodies, dbOk \in BOOLEAN :
       LET thrown == createMultipleCheck(isArray, items)
           rows == {Row(items[i].nombre, items[i].stock) :
                      i \in 1..Len(items)}
       IN IF thrown # NoThrow
            THEN /\ Respond(c, IF thrown.status # 0 THEN thrown.status
                               ELSE 500,
                            [error |-> thrown.message])
                 /\ UNCHANGED products
          ELSE IF ~dbOk
            THEN /\ Respond(c, 500,
                      [error |-> "Error interno al procesar la carga masiva"])
                 /\ UNCHANGED products
          ELSE /\ products' = products \cup rows
               /\ Respond(c, 201, [count |-> Len(items)])
  /\ UNCHANGED <<dbVars, connStore, uuidCount, log, procVars>>

\* ProductController.getProducts: res.json({data, meta}), or 500 with
\* {error: message} when the query fails.
GetProducts(c) ==
  /\ req[c].pc = "route"
  /\ req[c].route = "getProducts"
  /\ \E dbOk \in BOOLEAN :
       IF dbOk
         THEN Respond(c, 200, [data |-> products,
                               meta |-> [total |-> Cardinality(products)]])
         ELSE Respond(c, 500,
                [error |->
                   "Error interno del servidor al obtener los productos."])
  /\ UNCHANGED <<dbVars, products, connStore, uuidCount, log, procVars>>

\* ------------------------------------------------------- server process
\* The variables of the request pipeline, which start-up and shutdown leave
\* alone.
pipelineVars == <<users, nextId, products, req, connStore, uuidCount, log>>

\* Values of NODE_ENV (a required variable) and of process.env.RUN_SEED
\* (undefined when unset).
NodeEnvs == {"development", "dev", "test", "uat", "production", "prd"}
RunSeedValues == {JsStr("true"), JsStr("TRUE"), JsStr("false"), JsUndefined}
Signals == {"SIGTERM", "SIGINT"}

\* The process when server.ts has been loaded and startServer not yet
\* called: httpServer is null.
\*   pc           position of startServer
\*   result       how the promise of startServer settled
\*   handle       the HTTP server holds a listening socket
\*   conns, busy  open connections, and those with a request in progress
\*   closeCalls   calls of httpServer.close
\*   closeCbs     close callbacks waiting for the 'close' event
\*   closedLogged 'Servidor cerrado correctamente' lines written
\*   uncaught     errors that reached the uncaughtException handler
ServerLoaded(env, runSeedVar) ==
  [NODE_ENV |-> env, RUN_SEED |-> runSeedVar, pc |-> "init",
   dbConnected |-> FALSE, dbFailed |-> FALSE, result |-> "pending",
   seedRan |-> FALSE, seedFailed |-> FALSE,
   httpServer |-> FALSE, listenCalled |-> FALSE, handle |-> FALSE,
   conns |-> 0, busy |-> 0, received |-> {}, signals |-> 0,
   closeCalls |-> 0, closeCbs |-> 0, closedLogged |-> 0, uncaught |-> 0]

\* The process as the pipeline specifications see it: started and
\* listening.  They keep their requests in req and leave the counters alone.
ServerUp ==
  [ServerLoaded("development", JsUndefined) EXCEPT
     !.pc = "started", !.dbConnected = TRUE, !.result = "resolved",
     !.httpServer = TRUE, !.listenCalled = TRUE, !.handle = TRUE]

\* runSeed && NODE_ENV !== 'production'
seedRuns(s) == s.RUN_SEED = JsStr("true") /\ s.NODE_ENV # "production"

\* The seed block of initializeDatabase: execSync either returns or throws,
\* and the throw is caught and logged as a warning.
Seed(s, seedOk) ==
  IF seedRuns(s) THEN [s EXCEPT !.seedRan = TRUE, !.seedFailed = ~seedOk]
                 ELSE s

\* createServer(app) and httpServer.listen(PORT): the port is bound, or the
\* 'error' event fires and its handler throws out of the event loop.
Listen(s, bound) ==
  [s EXCEPT !.httpServer = TRUE, !.listenCalled = TRUE, !.handle = bound,
            !.uncaught = IF bound THEN @ ELSE @ + 1]

\* startServer that does not wait for initializeDatabase.
startServerNoAwait ==
  /\ server.pc = "init"
  /\ \E bound \in BOOLEAN :
       server' = Listen([server EXCEPT !.pc = "connecting"], bound)
  /\ UNCHANGED <<pipelineVars, loggers>>

\* startServer up to its first await: initializeDatabase is called and waits
\* for connectDatabase.
startServer ==
  /\ server.pc = "init"
  /\ server' = [server EXCEPT !.pc = "connecting"]
  /\ UNCHANGED <<pipelineVars, loggers>>

\* connectDatabase has settled: the rest of initializeDatabase and of
\* startServer run without another event in between.
initializeDatabase ==
  /\ server.pc = "connecting"
  /\ \E connected \in BOOLEAN, seedOk \in BOOLEAN, bound \in BOOLEAN :
       server' =
         IF connected
           THEN [Listen(Seed([server EXCEPT !.dbConnected = TRUE], seedOk),
                        bound)
                   EXCEPT !.pc = "started", !.result = "resolved"]
           ELSE [server EXCEPT !.pc = "failed", !.dbFailed = TRUE,
                               !.result = "rejected: database error"]
  /\ UNCHANGED <<pipelineVars, loggers>>

\* A client connects to the listening socket.
Accept ==
  /\ server.handle
  /\ server.conns < MaxOpen
  /\ server' = [server EXCEPT !.conns = @ + 1]
  /\ UNCHANGED <<pipelineVars, loggers>>

\* A request arrives on an open connection that has none in progress.
RequestStart ==
  /\ server.busy < server.conns
  /\ server' = [server EXCEPT !.busy = @ + 1]
  /\ UNCHANGED <<pipelineVars, loggers>>

\* The response of a request in progress has been sent.
RequestEnd ==
  /\ server.busy > 0
  /\ server' = [server EXCEPT !.busy = @ - 1]
  /\ UNCHANGED <<pipelineVars, loggers>>

\* A connection with no request in progress ends.
ConnectionEnd ==
  /\ server.conns > server.busy
  /\ server' = [server EXCEPT !.conns = @ - 1]
  /\ UNCHANGED <<pipelineVars, loggers>>

\* The signal handler without the check for a null httpServer.
SignalHandlerNoGuard(sig) ==
  /\ server.signals < MaxSignals
  /\ server' =
       IF server.httpServer
         THEN [server EXCEPT !.signals = @ + 1, !.received = @ \cup {sig},
                             !.closeCalls = @ + 1, !.closeCbs = @ + 1,
                             !.handle = FALSE]
         ELSE [server EXCEPT !.signals = @ + 1, !.received = @ \cup {sig},
                             !.uncaught = @ + 1]
  /\ UNCHANGED <<pipelineVars, loggers>>

\* process.on('SIGTERM') and process.on('SIGINT'): close the HTTP server if
\* there is one.  close() releases the listening socket and keeps the
\* callback for the 'close' event.
SignalHandler(sig) ==
  /\ server.signals < MaxSignals
  /\ server' =
       IF server.httpServer
         THEN [server EXCEPT !.signals = @ + 1, !.received = @ \cup {sig},
                             !.closeCalls = @ + 1, !.closeCbs = @ + 1,
                             !.handle = FALSE]
         ELSE [server EXCEPT !.signals = @ + 1, !.received = @ \cup {sig}]
  /\ UNCHANGED <<pipelineVars, loggers>>

\* The 'close' event of a closed server whose connections have all ended:
\* every waiting callback logs 'Servidor cerrado correctamente'.
CloseEvent ==
  /\ server.closeCbs > 0
  /\ ~server.handle
  /\ server.conns = 0
  /\ server' = [server EXCEPT !.closedLogged = @ + server.closeCbs,
                              !.closeCbs = 0]
  /\ UNCHANGED <<pipelineVars, loggers>>

\* --------------------------------------------------------------- Logger
\* Context names passed to the Logger (none has surrounding blanks, so the
\* trim() of the log format leaves them as they are).
ContextNames == {"app", "server", "users.service"}

\* The Logger objects in the order they were constructed, the map
\* loggerInstances (0: no entry), and what the last Logger.getLogger call of
\* each name returned (0: not called yet).  An object holds its instanceName
\* and, in fmt, the object whose instanceName its winston format prints: the
\* format is a closure of the object that created the winston logger.
NoLoggers ==
  [objs |-> <<>>, registry |-> [n \in ContextNames |-> 0],
   got |-> [n \in ContextNames |-> 0]]

\* new Logger(instanceName) applied to the state L.
Construct(L, instanceName) ==
  IF L.registry[instanceName] # 0
    THEN LET existingLogger == L.objs[L.registry[instanceName]]
         IN  [L EXCEPT !.objs = Append(@,
                  [instanceName |-> existingLogger.instanceName,
                   fmt |-> existingLogger.fmt])]
    ELSE [L EXCEPT !.objs = Append(@, [instanceName |-> instanceName,
                                        fmt |-> Len(L.objs) + 1]),
                   !.registry[instanceName] = Len(L.objs) + 1]

\* logger.ts ends with const defaultLogger = new Logger('app').
LoggersAtLoad == Construct(NoLoggers, "app")

\* The context name the object o writes in its log lines.
ContextOf(L, o) == L.objs[L.objs[o].fmt].instanceName

\* The object Logger.getLogger(instanceName) returns in the state L: the
\* registered one, or the one it constructs.
getLoggerResult(L, instanceName) ==
  IF L.registry[instanceName] # 0 THEN L.registry[instanceName]
                                  ELSE Len(L.objs) + 1

\* Logger.getLogger(instanceName)
getLogger(instanceName) ==
  /\ IF loggers.registry[instanceName] # 0
       THEN loggers' = [loggers EXCEPT !.got[instanceName] =
                          getLoggerResult(loggers, instanceName)]
       ELSE /\ Len(loggers.objs) < MaxObjects
            /\ loggers' = [Construct(loggers, instanceName) EXCEPT
                             !.got[instanceName] =
                               getLoggerResult(loggers, instanceName)]
  /\ UNCHANGED <<pipelineVars, server>>

\* const logger = new Logger(instanceName), as the modules do at load.
newLogger(instanceName) ==
  /\ Len(loggers.objs) < MaxObjects
  /\ loggers' = Construct(loggers, instanceName)
  /\ UNCHANGED <<pipelineVars, server>>

\* o.setContext(contextName) on a Logger object the program holds.
setContext(o, contextName) ==
  /\ o \in 1..Len(loggers.objs)
  /\ loggers' = [loggers EXCEPT !.objs[o].instanceName = contextName]
  /\ UNCHANGED <<pipelineVars, server>>

\* ------------------------------------------- service-level specification
\* A user route whose input passed validation reaches its controller with
\* the sanitised body and params.  Ids are UUIDs: the ids generated so far,
\* or 0, a UUID the database never generated.
ValidInput(route, id, email, name) ==
  /\ id \in 0..MaxUsers
  /\ id < nextId
  /\ CASE route = "createUser" ->
            id = 0 /\ email \in Emails /\ name \in Names
       [] route = "getAllUsers" -> id = 0 /\ email = "" /\ name = ""
       [] route = "getUserByEmail" ->
            id = 0 /\ email \in Emails /\ name = ""
       [] route = "updateUser" ->
            email \in Emails \cup {""} /\ name \in Names \cup {""}
       [] OTHER -> email = "" /\ name = ""

Invoke(c) ==
  /\ req[c].pc \in {"idle", "finished"}
  /\ \E route \in UserRoutes, id \in 0..MaxUsers,
        email \in Emails \cup {""}, name \in Names \cup {""} :
       /\ ValidInput(route, id, email, name)
       /\ req' = [req EXCEPT ![c] =
                    [IdleReq EXCEPT !.pc = "ctl", !.route = route,
                                    !.id = id, !.email = email,
                                    !.name = name]]
  /\ log' = [log EXCEPT ![c] = {}]
  /\ UNCHANGED <<dbVars, products, connStore, uuidCount, procVars>>

Init ==
  /\ users = {}
  /\ nextId = 1
  /\ products = {}
  /\ req = [c \in Conns |-> IdleReq]
  /\ connStore = [c \in Conns |-> ""]
  /\ uuidCount = 0
  /\ log = [c \in Conns |-> {}]
  /\ server = ServerUp
  /\ loggers = LoggersAtLoad

Next ==
  \E c \in Conns :
    \/ Invoke(c)
    \/ UserController(c)
    \/ UserService(c)
    \/ ErrorHandler(c)
    \/ Finish(c)

Spec == Init /\ [][Next]_vars

\* ------------------------------------------------ pipeline specification
\* Requests are followed through the whole chain on one keep-alive
\* connection, one after the other; the interleaving of service calls on
\* several connections is explored by Spec.
HttpConns == {1}

NextHttp ==
  \E c \in HttpConns :
    \/ Arrive(c)
    \/ Reconnect(c)
    \/ Cors(c)
    \/ Helmet(c)
    \/ traceMiddleware(c)
    \/ BodyParser(c)
    \/ auditMiddleware(c)
    \/ HealthRoute(c)
    \/ UsersRoot(c)
    \/ validate(c)
    \/ UserController(c)
    \/ UserService(c)
    \/ CreateProduct(c)
    \/ CreateMultiple(c)
    \/ GetProducts(c)
    \/ ErrorHandler(c)
    \/ Finish(c)

SpecHttp == Init /\ [][NextHttp]_vars

\* ------------------------------------------- error-handler specification
\* The errors a handler may pass to the error middleware: every class of
\* the hierarchy with its default and with custom messages, a bare
\* CustomError, and errors that are not CustomErrors.
ErrorMessages == {"Usuario no encontrado", "El email ya existe", "boom"}

ErrorInputs ==
  {NotFoundError(m) : m \in ErrorMessages \cup {"Recurso no encontrado"}}
  \cup {ConflictError(m) :
          m \in ErrorMessages \cup {"Conflicto en la operacion"}}
  \cup {BadRequestError(m) :
          m \in ErrorMessages \cup {"Datos de entrada invalidos"}}
  \cup {UnauthorizedError(m) : m \in ErrorMessages \cup {"No autorizado"}}
  \cup {ForbiddenError(m) : m \in ErrorMessages \cup {"Acceso prohibido"}}
  \cup {InternalServerError(m) :
          m \in ErrorMessages \cup {"Error interno del servidor"}}
  \cup {CustomError("CustomError", m, 422) : m \in ErrorMessages}
  \cup {GenericError(k, m, d) :
          k \in {"Error", "TypeError", "AxiosError"},
          m \in ErrorMessages \cup {"connect ECONNREFUSED 10.0.0.5:5432"},
          d \in {"stack", "stack; response.data = {secret}"}}

InitErr ==
  /\ users = {}
  /\ nextId = 1
  /\ products = {}
  /\ \E e \in ErrorInputs, t \in {""} \cup TraceHeaders :
       req = [c \in Conns |->
                IF c = 1
                  THEN [IdleReq EXCEPT !.pc = "error", !.err = e,
                                       !.traceId = t]
                  ELSE IdleReq]
  /\ connStore = [c \in Conns |-> req[c].traceId]
  /\ uuidCount = 0
  /\ log = [c \in Conns |-> {}]
  /\ server = ServerUp
  /\ loggers = LoggersAtLoad

NextErr ==
  \E c \in Conns :
    \/ ErrorHandler(c)
    \/ Finish(c)

SpecErr == InitErr /\ [][NextErr]_vars

\* ------------------------------------------------- audit specification
\* One request that has passed CORS, Helmet, the trace middleware and the
\* body parsers, with the headers and the body a client may send, is
\* followed from the audit middleware to its response.
HeaderValues == {"Bearer abc", ""}

ReqHeaders ==
  {NoHeaders}
  \cup {[NoHeaders EXCEPT ![h] = v] : h \in HeaderNames, v \in HeaderValues}
  \cup {[NoHeaders EXCEPT !["authorization"] = "Bearer abc",
                          !["cookie"] = "sid=1",
                          !["content-type"] = "application/json"]}

\* Values of a body field: strings, numbers, null, false and a nested
\* object that holds a password.
BodyValues == {JsStr("s3cret"), JsStr(""), JsNum(0), JsNum(8), JsNull,
               JsFalse, JsObj("{password: s3cret}")}

ObjectBody(fields) == [present |-> TRUE, fields |-> fields]

ReqBodies ==
  {BodyUndefined, ObjectBody(BodyUndefined.fields)}
  \cup {ObjectBody([BodyUndefined.fields EXCEPT ![f] = v]) :
          f \in BodyFieldNames, v \in BodyValues}
  \cup {ObjectBody([BodyUndefined.fields EXCEPT !["password"] = v,
                                                !["username"] = JsStr("ana"),
                                                !["cvv"] = w]) :
          v \in BodyValues, w \in {JsUndefined, JsNum(8)}}

InitAudit ==
  /\ users = {[id |-> 1, email |-> "b@x.com", name |-> "Ana"]}
  /\ nextId = 2
  /\ products = {}
  /\ \E h \in ReqHeaders, b \in ReqBodies :
       /\ h = NoHeaders \/ b = BodyUndefined
           \/ h \notin {[NoHeaders EXCEPT ![n] = v] :
                           n \in HeaderNames, v \in HeaderValues}
       /\ req = [c \in Conns |->
                   IF c \in HttpConns
                     THEN [IdleReq EXCEPT !.pc = "audit", !.headers = h,
                                          !.reqBody = b, !.hdr = "t1",
                                          !.traceId = "t1"]
                     ELSE IdleReq]
  /\ connStore = [c \in Conns |-> req[c].traceId]
  /\ uuidCount = 0
  /\ log = [c \in Conns |-> {}]
  /\ server = ServerUp
  /\ loggers = LoggersAtLoad

NextAudit ==
  \E c \in HttpConns :
    \/ auditMiddleware(c)
    \/ HealthRoute(c)
    \/ UsersRoot(c)
    \/ validate(c)
    \/ UserController(c)
    \/ UserService(c)
    \/ CreateProduct(c)
    \/ CreateMultiple(c)
    \/ GetProducts(c)
    \/ ErrorHandler(c)
    \/ Finish(c)

SpecAudit == InitAudit /\ [][NextAudit]_vars

\* ------------------------------------------- response-level specification
\* The 'finish' listener for every final status code a response may have.
StatusCodes == 200..599

InitStatus ==
  /\ users = {}
  /\ nextId = 1
  /\ products = {}
  /\ \E code \in StatusCodes, audited \in BOOLEAN :
       req = [c \in Conns |->
                IF c \in HttpConns
                  THEN [IdleReq EXCEPT !.pc = "done", !.sent = TRUE,
                                       !.status = code,
                                       !.audited = audited,
                                       !.hdr = "t1", !.traceId = "t1"]
                  ELSE IdleReq]
  /\ connStore = [c \in Conns |-> req[c].traceId]
  /\ uuidCount = 0
  /\ log = [c \in Conns |-> {}]
  /\ server = ServerUp
  /\ loggers = LoggersAtLoad

NextStatus == \E c \in HttpConns : Finish(c)

SpecStatus == InitStatus /\ [][NextStatus]_vars

\* ----------------------------------------- start-up and shutdown of server
InitBoot ==
  /\ users = {}
  /\ nextId = 1
  /\ products = {}
  /\ req = [c \in Conns |-> IdleReq]
  /\ connStore = [c \in Conns |-> ""]
  /\ uuidCount = 0
  /\ log = [c \in Conns |-> {}]
  /\ \E env \in NodeEnvs, runSeedVar \in RunSeedValues :
       server = ServerLoaded(env, runSeedVar)
  /\ loggers = LoggersAtLoad

NextBoot ==
  \/ startServer
  \/ initializeDatabase
  \/ Accept
  \/ RequestStart
  \/ RequestEnd
  \/ ConnectionEnd
  \/ \E sig \in Signals : SignalHandler(sig)
  \/ CloseEvent

SpecBoot == InitBoot /\ [][NextBoot]_vars

\* ------------------------------------------------- the Logger registry
InitLogger ==
  /\ users = {}
  /\ nextId = 1
  /\ products = {}
  /\ req = [c \in Conns |-> IdleReq]
  /\ connStore = [c \in Conns |-> ""]
  /\ uuidCount = 0
  /\ log = [c \in Conns |-> {}]
  /\ server = ServerUp
  /\ loggers = LoggersAtLoad

NextLogger ==
  \/ \E instanceName \in ContextNames : getLogger(instanceName)
  \/ \E instanceName \in ContextNames : newLogger(instanceName)
  \/ \E o \in 1..MaxObjects, contextName \in ContextNames :
       setContext(o, contextName)

SpecLogger == InitLogger /\ [][NextLogger]_vars

\* ------------------------------------------------------------------ C1
\* C1: no two stored users ever share the same e-mail, whatever the
\* interleaving of createUser, updateUser and deleteUser calls.
C1_UniqueEmail ==
  \A u1 \in users : \A u2 \in users : u1.email = u2.email => u1 = u2

\* A second write of a stored e-mail was attempted and the table holds two
\* users.
C1_Witness ==
  /\ Cardinality(users) = 2
  /\ \E c \in Conns : req[c].pc = "error" /\ req[c].err = PrismaUniqueError

\* ------------------------------------------------------------------ C2
\* C2: every createUser call that has answered either created its record
\* (201) or ended with ConflictError: 409 and 'El email ya existe'.
C2_CreateOrConflict ==
  \A c \in Conns :
    (req[c].route = "createUser" /\ req[c].pc = "done") =>
      \/ req[c].status = 201
      \/ /\ req[c].status = 409
         /\ req[c].err = ConflictError("El email ya existe")
         /\ req[c].body = [success |-> FALSE,
                           message |-> "El email ya existe"]

\* ------------------------------------------------------------------ C3
\* C3: when the lookup of getUserById, getUserByEmail, updateUser or
\* deleteUser finds no stored user with the id or e-mail asked for, the call
\* ends with NotFoundError, is answered with 404, and no step of it changes
\* the stored users.
C3_NotFound ==
  [][\A c \in Conns :
       LET r == req[c]
           miss ==
             \/ /\ r.pc \in {"gi_find", "up_find", "de_find"}
                /\ \A u \in users : u.id # r.id
             \/ /\ r.pc = "ge_find"
                /\ \A u \in users : u.email # r.email
           failing == r.pc = "error" /\ r.err.kind = "NotFoundError"
       IN /\ (miss /\ req'[c] # r) =>
               /\ req'[c].pc = "error"
               /\ req'[c].err.kind = "NotFoundError"
               /\ req'[c].err.statusCode = 404
               /\ users' = users
          /\ (failing /\ req'[c] # r) =>
               /\ req'[c].pc = "done"
               /\ req'[c].status = 404
               /\ req'[c].body = [success |-> FALSE,
                                  message |-> "Usuario no encontrado"]
               /\ users' = users]_vars

\* A deleteUser for an id nobody has was answered with 404 while a user is
\* stored.
C3_Witness ==
  /\ users # {}
  /\ \E c \in Conns :
       /\ req[c].pc = "done"
       /\ req[c].route = "deleteUser"
       /\ req[c].status = 404
       /\ \A u \in users : u.id # req[c].id

\* ------------------------------------------------------------------ C4
\* C4: a request to a user route whose input fails validation (e-mail
\* missing where required or malformed, name of fewer than 2 or more than
\* 100 characters, id that is not a UUID) never reaches the controller or
\* the service, is answered with 400, and leaves the stored users as they
\* were.
C4_ValidationRejects ==
  [][\A c \in Conns :
       LET r == req'[c]
           badId == r.rawId = NotAUuid
           badEmail == r.rawEmail \in {"", "not-an-email", LongEmail}
           badName == r.rawName \in {"   ", "A", Name101}
           invalid ==
             CASE r.route = "createUser" ->
                    badEmail \/ r.rawEmail = UNDEF
                    \/ badName \/ r.rawName = UNDEF
               [] r.route = "updateUser" -> badId \/ badEmail \/ badName
               [] r.route = "getUserByEmail" -> badEmail
               [] r.route \in {"getUserById", "deleteUser"} -> badId
               [] OTHER -> FALSE
       IN (r.checked /\ invalid) =>
            /\ ~r.invoked
            /\ r.pc \in {"error", "done"}
            /\ r.err.kind = "BadRequestError"
            /\ r.pc = "done" => r.status = 400 /\ r.body.success = FALSE
            /\ users' = users]_vars

\* An update of a stored user with a valid id and a one-character name was
\* answered with 400.
C4_Witness ==
  \E c \in Conns :
    /\ req[c].pc = "done"
    /\ req[c].checked
    /\ req[c].route = "updateUser"
    /\ req[c].rawName = "A"
    /\ \E u \in users : u.id = req[c].rawId
    /\ req[c].status = 400

\* ------------------------------------------------------------------ C5
\* C5: the error handler answers each kind of CustomError with the status
\* of its class (NotFound 404, Conflict 409, BadRequest 400, Unauthorized
\* 401, Forbidden 403, InternalServer 500; a bare CustomError with the
\* status it was built with) and the body {success: false, message}.
C5_StatusByKind ==
  \A c \in Conns :
    (req[c].pc = "done" /\ req[c].err.custom) =>
      LET e == req[c].err
          expected ==
            CASE e.kind = "NotFoundError" -> 404
              [] e.kind = "ConflictError" -> 409
              [] e.kind = "BadRequestError" -> 400
              [] e.kind = "UnauthorizedError" -> 401
              [] e.kind = "ForbiddenError" -> 403
              [] e.kind = "InternalServerError" -> 500
              [] OTHER -> 422
      IN /\ req[c].sent
         /\ req[c].status = expected
         /\ req[c].body = [success |-> FALSE, message |-> e.message]

\* A ForbiddenError with a message of its own was answered.
C5_Witness ==
  \E c \in Conns :
    /\ req[c].pc = "done"
    /\ req[c].err.kind = "ForbiddenError"
    /\ req[c].err.message = "boom"
    /\ req[c].status = 403

\* ------------------------------------------------------------------ C6
\* C6: an error that is not a CustomError is answered with 500 and the
\* fixed message 'Error al procesar la solicitud', whatever its message,
\* stack or Axios details.
C6_GenericIs500 ==
  \A c \in Conns :
    (req[c].pc = "done" /\ req[c].err # NoErr /\ ~req[c].err.custom) =>
      /\ req[c].sent
      /\ req[c].status = 500
      /\ req[c].body = [success |-> FALSE,
                        message |-> "Error al procesar la solicitud"]

\* An AxiosError carrying response data and a connection message was
\* answered.
C6_Witness ==
  \E c \in Conns :
    /\ req[c].pc = "done"
    /\ req[c].err.kind = "AxiosError"
    /\ req[c].err.message = "connect ECONNREFUSED 10.0.0.5:5432"
    /\ req[c].err.detail = "stack; response.data = {secret}"
    /\ req[c].status = 500

\* ------------------------------------------------------------------ C7
\* C7: every JSON body sent by the health, user and product endpoints has
\* the envelope {success: boolean, message, data?}.
C7_Envelope ==
  \A c \in Conns :
    (req[c].pc = "done" /\ req[c].sent) =>
      /\ {"success", "message"} \subseteq DOMAIN req[c].body
      /\ DOMAIN req[c].body \subseteq {"success", "message", "data"}
      /\ req[c].body.success \in BOOLEAN

\* ------------------------------------------------------------------ C8
\* C8: every stored product has a stock that is a non-negative integer and
\* a nombre that is a string with a character other than white space.
C8_ProductRows ==
  \A p \in products :
    /\ p.stock.t = "number"
    /\ p.stock.n % 2 = 0
    /\ p.stock.n >= 0
    /\ p.nombre.t = "string"
    /\ p.nombre.s \notin {"", "  "}

\* Two products are stored and a bulk load with a bad stock was refused.
C8_Witness ==
  /\ Cardinality(products) = 2
  /\ \E c \in Conns :
       /\ req[c].pc = "done"
       /\ req[c].route = "createMultiple"
       /\ req[c].status = 400
       /\ req[c].body = [error |-> "stock invalido"]

\* ------------------------------------------------------------------ C9
\* C9: every log line written while a request that has a trace id is
\* handled carries that request's req.traceId.
C9_OwnTraceId ==
  \A c \in Conns : \A l \in log[c] : l.owner # "" => l.field = l.owner

\* ----------------------------------------------------------------- C10
\* C10 as stated: past the trace middleware a request has a non-empty
\* req.traceId, equal to its x-trace-id header when the header is present
\* and a generated UUID otherwise.
C10_HeaderWhenPresent ==
  \A c \in Conns :
    LET r == req[c]
        past == \/ r.pc \notin {"idle", "finished", "cors", "helmet",
                                "trace", "error", "done"}
                \/ r.pc \in {"error", "done"} /\ r.err # CorsError
    IN past =>
         /\ r.traceId # ""
         /\ r.hdr # HdrAbsent => r.traceId = r.hdr
         /\ r.hdr = HdrAbsent =>
              \E k \in 1..uuidCount : r.traceId = UuidPool[k]

\* C10 amended: every request that reaches the trace middleware leaves it
\* with a non-empty req.traceId, equal to its x-trace-id header when the
\* header is present and not empty, and the UUID generated at that moment
\* otherwise; the value stays with the request.
C10_HeaderWhenNonEmpty ==
  [][\A c \in Conns :
       LET r == req'[c]
           past == \/ r.pc \notin {"idle", "finished", "cors", "helmet",
                                   "trace", "error", "done"}
                   \/ r.pc \in {"error", "done"} /\ r.err # CorsError
           given == r.hdr \notin {HdrAbsent, ""}
       IN past =>
            /\ r.traceId # ""
            /\ given => r.traceId = r.hdr
            /\ (~given /\ req[c].pc = "trace") =>
                 /\ r.traceId = UuidPool[uuidCount + 1]
                 /\ uuidCount' = uuidCount + 1
            /\ req[c].pc # "trace" => r.traceId = req[c].traceId]_vars

\* A request with an empty x-trace-id header got the second generated UUID.
C10_Witness ==
  \E c \in Conns :
    /\ req[c].pc = "audit"
    /\ req[c].hdr = ""
    /\ req[c].traceId = UuidPool[2]

\* ----------------------------------------------------------------- C11
\* C11: the audit REQUEST entry shows '[REDACTED]' for every top-level body
\* field named password, token, secret, key, pin, cvv or newPassword and
\* every header named authorization, cookie, x-api-key or x-auth-token that
\* carries a value (a header that is sent and not empty; a field that is
\* there and is not null, '', 0 or false), and shows every other field and
\* header as the request has it.
C11_RequestRedaction ==
  \A c \in Conns : \A l \in log[c] :
    (l.kind = "REQUEST" /\ req[c].pc \notin {"idle", "finished"}) =>
      /\ \A h \in HeaderNames :
           l.data.headers[h] =
             IF /\ h \in {"authorization", "cookie", "x-api-key",
                          "x-auth-token"}
                /\ req[c].headers[h] \notin {HdrAbsent, ""}
               THEN "[REDACTED]" ELSE req[c].headers[h]
      /\ l.data.body.present = req[c].reqBody.present
      /\ \A f \in BodyFieldNames :
           l.data.body.fields[f] =
             IF /\ f \in {"password", "token", "secret", "key", "pin",
                          "cvv", "newPassword"}
                /\ req[c].reqBody.fields[f] \notin
                     {JsUndefined, JsNull, JsStr(""), JsNum(0), JsFalse}
               THEN JsStr("[REDACTED]") ELSE req[c].reqBody.fields[f]

\* A REQUEST entry was written for a body with a password, a cvv and a
\* username and for headers with credentials and a content type.
C11_Witness ==
  \E c \in Conns : \E l \in log[c] :
    /\ l.kind = "REQUEST"
    /\ req[c].reqBody.fields["password"] = JsStr("s3cret")
    /\ req[c].reqBody.fields["cvv"] = JsNum(8)
    /\ l.data.body.fields["password"] = JsStr("[REDACTED]")
    /\ l.data.body.fields["cvv"] = JsStr("[REDACTED]")
    /\ l.data.body.fields["username"] = JsStr("ana")
    /\ l.data.headers["authorization"] = "[REDACTED]"
    /\ l.data.headers["content-type"] = "application/json"

\* ----------------------------------------------------------------- C12
\* C12: no log entry shows the original value of a sensitive field of the
\* request body, at the top level of the body or nested in it.
C12_NoSensitiveValue ==
  \A c \in Conns : \A l \in log[c] : \A f \in BodyFieldNames :
    /\ f \in {"password", "token", "secret", "key", "pin", "cvv",
              "newPassword"} =>
         l.data.body.fields[f] \notin {JsStr("s3cret"), JsNum(8)}
    /\ l.data.body.fields[f] # JsObj("{password: s3cret}")

\* ----------------------------------------------------------------- C13
\* C13: when an audited response finishes, its RESPONSE entry is written
\* at the level of the final status code: debug for 2xx, info for 3xx,
\* warn for 4xx, error for 5xx.
C13_LevelByStatus ==
  [][\A c \in Conns :
       (req[c].pc = "done" /\ req[c].audited /\ req'[c].pc = "finished") =>
         LET code == req[c].status
             expected == CASE code \in 200..299 -> "debug"
                           [] code \in 300..399 -> "info"
                           [] code \in 400..499 -> "warn"
                           [] code \in 500..599 -> "error"
             written == {l \in log'[c] \ log[c] : l.kind = "RESPONSE"}
         IN /\ written # {}
            /\ \A l \in written : l.level = expected]_vars

\* The RESPONSE entry of a 304 was written at info.
C13_Witness ==
  \E c \in Conns :
    /\ req[c].pc = "finished"
    /\ \E l \in log[c] : l.kind = "RESPONSE" /\ l.level = "info"

\* ----------------------------------------------------------------- C14
\* C14: no REQUEST or RESPONSE entry is written for a request served by the
\* health-check endpoint, and every other request that reaches its route
\* has its REQUEST entry.
C14_HealthNotAudited ==
  \A c \in Conns :
    LET audit == {l \in log[c] : l.ctx = "audit.middleware"}
    IN /\ req[c].route = "health" => audit = {}
       /\ (req[c].route \in UserRoutes \cup ProductRoutes) =>
            \E l \in audit : l.kind = "REQUEST"

\* ----------------------------------------------------------------- C15
\* C15: the answer to a request that failed validation is 400 with the
\* body {success: false, message: 'Errores de validacion', errors} where
\* errors has one {field, message} item per failed rule.
C15_ValidationBody ==
  \A c \in Conns :
    (req[c].pc = "done" /\ req[c].validationErrors # << >>) =>
      /\ req[c].status = 400
      /\ DOMAIN req[c].body = {"success", "message", "errors"}
      /\ req[c].body.success = FALSE
      /\ req[c].body.message = "Errores de validacion"
      /\ req[c].body.errors = req[c].validationErrors

\* ----------------------------------------------------------------- C16
\* C16: the stages of a request run in the order CORS, Helmet, trace id,
\* body parsers, audit, route (validators, controller, service); the error
\* handler runs only after a stage raised an error and nothing but the
\* response follows it; the REQUEST entry is written once the trace id is
\* assigned and the body parsed.
C16_StageOrder ==
  [][\A c \in Conns :
       LET from == req[c].pc
           to == req'[c].pc
           service == {"cu_find", "cu_create", "gi_find", "ge_find",
                       "ga_find", "up_find", "up_update", "de_find",
                       "de_delete"}
           raising == {"cors", "json", "route"} \cup service
           next ==
             CASE from \in {"idle", "finished"} -> {"cors"}
               [] from = "cors" -> {"helmet"}
               [] from = "helmet" -> {"trace"}
               [] from = "trace" -> {"json"}
               [] from = "json" -> {"audit"}
               [] from = "audit" -> {"route"}
               [] from = "route" -> {"ctl", "done"}
               [] from = "ctl" -> service
               [] from \in service -> service \cup {"done"}
               [] from = "error" -> {"done"}
               [] from = "done" -> {"finished"}
       IN /\ to # from =>
               \/ to \in next
               \/ to = "error" /\ from \in raising /\ req'[c].err # NoErr
          /\ from = "error" => req[c].err # NoErr
          /\ \A l \in log'[c] \ log[c] :
               l.kind = "REQUEST" =>
                 /\ from = "audit"
                 /\ req[c].traceId # ""
                 /\ l.owner = req[c].traceId]_vars

\* A request went through every stage to its controller and service and
\* was answered after its REQUEST entry; the error handler did not run.
C16_Witness ==
  \E c \in Conns :
    /\ req[c].pc = "done"
    /\ req[c].route = "createUser"
    /\ req[c].status = 201
    /\ req[c].err = NoErr
    /\ \E l \in log[c] : l.kind = "REQUEST"

\* ------------------------------------------------------------------ C17
\* C17: listen is never reached before connectDatabase has succeeded; when
\* connectDatabase fails the server never listens and startServer ends
\* with that error.
C17_ListenAfterConnect ==
  /\ server.listenCalled => server.dbConnected
  /\ server.httpServer => server.dbConnected
  /\ server.dbFailed =>
       /\ ~server.listenCalled
       /\ ~server.handle
       /\ server.result = "rejected: database error"

\* The database connected and the server listens with a client connected.
C17_Witness ==
  /\ server.dbConnected
  /\ server.listenCalled
  /\ server.handle
  /\ server.conns > 0
  /\ server.signals = 0

\* ------------------------------------------------------------------ C18
\* C18: once SIGTERM or SIGINT has been handled the server accepts no new
\* connection, the handler leaves the requests in progress alone, and
\* 'Servidor cerrado correctamente' is logged only when every connection
\* has ended; a signal handled while httpServer is null closes nothing and
\* raises no error.
C18_GracefulShutdown ==
  [][/\ server.closeCalls > 0 => server'.conns <= server.conns
     /\ server.closeCalls > 0 => ~server'.handle
     /\ server'.signals > server.signals =>
          /\ server'.busy = server.busy
          /\ server'.conns = server.conns
          /\ server'.closedLogged = server.closedLogged
          /\ server'.uncaught = server.uncaught
          /\ IF server.httpServer
               THEN /\ ~server'.handle
                    /\ server'.closeCalls = server.closeCalls + 1
               ELSE /\ server'.closeCalls = server.closeCalls
                    /\ server'.closeCbs = server.closeCbs
                    /\ server'.handle = server.handle
                    /\ server'.httpServer = server.httpServer
                    /\ server'.pc = server.pc
     /\ server'.closedLogged > server.closedLogged =>
          /\ server.closeCalls > 0
          /\ server.busy = 0
          /\ server.conns = 0
          /\ server'.busy = 0
          /\ server'.conns = 0
    ]_vars

\* A signal has been handled while a request was in progress: the server
\* is closed to new connections and the closing line is not yet written.
C18_Witness ==
  /\ server.closeCalls > 0
  /\ server.busy > 0
  /\ ~server.handle
  /\ server.closedLogged = 0

\* ------------------------------------------------------------------ C19
\* C19: the seed runs only in the development environment and only when
\* RUN_SEED is 'true', and a failing seed does not keep the server from
\* starting.
C19_SeedOnlyInDevelopment ==
  /\ server.seedRan =>
       /\ server.NODE_ENV \in {"development", "dev"}
       /\ server.RUN_SEED = JsStr("true")
  /\ server.seedFailed => server.listenCalled

\* ------------------------------------------------------------------ C20
\* C20: after any calls, Logger.getLogger(name) returns the instance it
\* returned before for that name, and that instance logs under the context
\* name of the call.
C20_SingletonPerContext ==
  \A n \in ContextNames :
    loggers.got[n] # 0 =>
      /\ getLoggerResult(loggers, n) = loggers.got[n]
      /\ ContextOf(loggers, loggers.got[n]) = n

====
